---------------------------- MODULE Spec2Model ----------------------------
(* panoptic_mapping: the instance-routed pointcloud integrator               *)
(* (NaiveIntegrator) and the map evaluation pipeline (MapEvaluator).         *)
(*                                                                            *)
(* Part I   NaiveIntegrator::setupFromConfig / processPointcloud              *)
(* Part II  MapEvaluator::computeReconstructionError                          *)
(* Part III MapEvaluator::visualizeReconstructionError                        *)
(* Part IV  MapEvaluator::evaluate                                            *)
EXTENDS Integers, Sequences, FiniteSets, TLC

VARIABLES
  \* ---- NaiveIntegrator and the submap collection it is handed ----
  config_,          \* NaiveIntegrator::config_.voxblox_integrator_type
  tsdf_integrator_, \* the backend: [ptr, type, layer]
  submap_ids,       \* key set of the SubmapCollection
  layers,           \* per submap id: integratePointCloud calls on its TSDF layer
  frame,            \* arguments of the last processPointcloud call
  id_v, cloud_v, color_v,  \* the segmentation of the last call
  warnings,         \* LOG(WARNING) lines of the last call (the missing id)
  fusions,          \* integratePointCloud calls of the last call, in order
  n_created,        \* TsdfIntegratorFactory::create calls so far
  ncalls,           \* processPointcloud calls so far
  \* ---- computeReconstructionError run on its own ----
  err_req,          \* [cloud, maximum_distance]: *gt_ptcloud_ and the request
  err,              \* outcome of the run: counters, samples, rows written
  \* ---- visualizeReconstructionError run on its own ----
  vis_req,          \* [map, env, maximum_distance]
  vis,              \* outcome of the run: the recolored map, whether saved
  \* ---- MapEvaluator ----
  gt_ptcloud_,      \* [ptr, cloud]: the loaded ground truth, or null
  submaps_,         \* [ptr, file, map]: the loaded map, or null
  planning_,        \* [ptr, file]: PlanningInterface over the map loaded last
  target_directory_, target_map_name_,  \* strings, as sequences of characters
  disk,             \* files written so far: path -> content
  last_req,         \* the request of the last evaluate call
  result,           \* what it returned: "true", "false"; "fault" if it did not
  events,           \* the stages the last call went through, in order
  nruns             \* evaluate calls so far

intVars == <<config_, tsdf_integrator_, submap_ids, layers, frame, id_v,
             cloud_v, color_v, warnings, fusions, n_created, ncalls>>

errVars == <<err_req, err>>

visVars == <<vis_req, vis>>

evalVars == <<gt_ptcloud_, submaps_, planning_, target_directory_,
              target_map_name_, disk, last_req, result, events, nruns>>

vars == <<intVars, errVars, visVars, evalVars>>

-----------------------------------------------------------------------------
(* Part I: NaiveIntegrator                                                   *)

\* Bounds of the exploration.
MaxLen == 3
MaxCalls == 2

\* Instance ids appearing in frames and as submap keys.
Ids == {1, 2, 3}

\* Names a voxblox integrator can be configured with.
IntegratorTypes == {"fast", "merged"}

\* Points and colors of a frame are labelled by their input position, so that
\* every entry is distinguishable after grouping.
PointAt(i) == 100 + i
ColorAt(i) == 200 + i

SeqsUpTo(S, n) == UNION {[1..k -> S] : k \in 0..n}

Frames ==
  {[ids |-> s,
    pointcloud |-> [i \in 1..Len(s) |-> PointAt(i)],
    colors |-> [i \in 1..Len(s) |-> ColorAt(i)]] : s \in SeqsUpTo(Ids, MaxLen)}

NullIntegrator == [ptr |-> FALSE, type |-> "none", layer |-> 0]
EmptyLayer == [integrations |-> 0]
NoFrame == [ids |-> <<>>, pointcloud |-> <<>>, colors |-> <<>>]

\* std::find(id_v.begin(), id_v.end(), x) - id_v.begin(), 1-based:
\* Len(v) + 1 stands for end().
RECURSIVE Find(_, _, _)
Find(v, x, i) ==
  IF i > Len(v) THEN i
  ELSE IF v[i] = x THEN i
  ELSE Find(v, x, i + 1)

\* Mutant: a new group is opened for every point.
SegmentStep_AlwaysNew(g, id, p, c) ==
  [id_v |-> Append(g.id_v, id),
   cloud_v |-> Append(g.cloud_v, <<p>>),
   color_v |-> Append(g.color_v, <<c>>)]

\* One iteration of the segmentation loop (lines 29-40).
SegmentStep(g, id, p, c) ==
  LET index == Find(g.id_v, id, 1)
      g1 == IF index = Len(g.id_v) + 1
            THEN [id_v |-> Append(g.id_v, id),
                  cloud_v |-> Append(g.cloud_v, <<>>),
                  color_v |-> Append(g.color_v, <<>>)]
            ELSE g
  IN [id_v |-> g1.id_v,
      cloud_v |-> [g1.cloud_v EXCEPT ![index] = Append(@, p)],
      color_v |-> [g1.color_v EXCEPT ![index] = Append(@, c)]]

RECURSIVE SegmentLoop(_, _, _)
SegmentLoop(g, f, i) ==
  IF i > Len(f.ids) THEN g
  ELSE SegmentLoop(SegmentStep(g, f.ids[i], f.pointcloud[i], f.colors[i]),
                   f, i + 1)

Segment(f) == SegmentLoop([id_v |-> <<>>, cloud_v |-> <<>>, color_v |-> <<>>], f, 1)

\* submaps->submapIdExists(id)
submapIdExists(keys, id) == id \in keys

\* Mutant: a missing submap is allocated on the fly and integrated into.
IntegrateStep_AutoCreate(s, id, cloud, color) ==
  LET fresh == ~s.integ.ptr
      integ == [ptr |-> TRUE,
                type |-> IF fresh THEN s.cfg ELSE s.integ.type,
                layer |-> id]
  IN [s EXCEPT !.keys = @ \cup {id},
               !.integ = integ,
               !.created = @ + (IF fresh THEN 1 ELSE 0),
               !.layers[id] = [integrations |-> @.integrations + 1],
               !.fusions = Append(@, [bound |-> id, group |-> id,
                                      points |-> cloud, colors |-> color,
                                      created |-> fresh])]

\* Mutant: the backend is not rebound once constructed.
IntegrateStep_NoRebind(s, id, cloud, color) ==
  IF ~submapIdExists(s.keys, id)
  THEN [s EXCEPT !.warnings = Append(@, id)]
  ELSE LET fresh == ~s.integ.ptr
           integ == IF fresh
                    THEN [ptr |-> TRUE, type |-> s.cfg, layer |-> id]
                    ELSE s.integ
       IN [s EXCEPT !.integ = integ,
                    !.created = @ + (IF fresh THEN 1 ELSE 0),
                    !.layers[integ.layer] =
                        [integrations |-> @.integrations + 1],
                    !.fusions = Append(@, [bound |-> integ.layer, group |-> id,
                                           points |-> cloud, colors |-> color,
                                           created |-> fresh])]

\* One iteration of the integration loop (lines 43-59) for group
\* (id, cloud, color). s carries the collection's key set, the backend, the
\* layers and the logs.
IntegrateStep(s, id, cloud, color) ==
  IF ~submapIdExists(s.keys, id)
  THEN [s EXCEPT !.warnings = Append(@, id)]
  ELSE LET fresh == ~s.integ.ptr
           integ == IF fresh
                    THEN [ptr |-> TRUE, type |-> s.cfg, layer |-> id]
                    ELSE [s.integ EXCEPT !.layer = id]
       IN [s EXCEPT !.integ = integ,
                    !.created = @ + (IF fresh THEN 1 ELSE 0),
                    !.layers[integ.layer] =
                        [integrations |-> @.integrations + 1],
                    !.fusions = Append(@, [bound |-> integ.layer, group |-> id,
                                           points |-> cloud, colors |-> color,
                                           created |-> fresh])]

RECURSIVE IntegrateLoop(_, _, _)
IntegrateLoop(s, g, i) ==
  IF i > Len(g.id_v) THEN s
  ELSE IntegrateLoop(IntegrateStep(s, g.id_v[i], g.cloud_v[i], g.color_v[i]),
                     g, i + 1)

\* NaiveIntegrator::processPointcloud. CHECK_EQ on the sizes holds for every
\* frame of Frames.
ProcessPointcloud(f) ==
  /\ ncalls < MaxCalls
  /\ Len(f.ids) = Len(f.pointcloud)
  /\ Len(f.ids) = Len(f.colors)
  /\ \E g \in {Segment(f)} :
     \E s \in {IntegrateLoop([keys |-> submap_ids, cfg |-> config_,
                               integ |-> tsdf_integrator_, layers |-> layers,
                               created |-> n_created, warnings |-> <<>>,
                               fusions |-> <<>>], g, 1)} :
        /\ frame' = f
        /\ id_v' = g.id_v
        /\ cloud_v' = g.cloud_v
        /\ color_v' = g.color_v
        /\ submap_ids' = s.keys
        /\ tsdf_integrator_' = s.integ
        /\ layers' = s.layers
        /\ n_created' = s.created
        /\ warnings' = s.warnings
        /\ fusions' = s.fusions
  /\ ncalls' = ncalls + 1
  /\ UNCHANGED config_
  /\ UNCHANGED <<errVars, visVars, evalVars>>

\* NaiveIntegrator::setupFromConfig: a config of the right dynamic type is
\* copied, any other is rejected with an error log and config_ is kept.
SetupFromConfig(ok, t) ==
  /\ config_' = IF ok THEN t ELSE config_
  /\ UNCHANGED <<tsdf_integrator_, submap_ids, layers, frame, id_v, cloud_v,
                 color_v, warnings, fusions, n_created, ncalls>>
  /\ UNCHANGED <<errVars, visVars, evalVars>>

InitIntegrator ==
  /\ config_ \in IntegratorTypes
  /\ tsdf_integrator_ = NullIntegrator
  /\ submap_ids \in SUBSET Ids
  /\ layers = [i \in Ids |-> EmptyLayer]
  /\ frame = NoFrame
  /\ id_v = <<>>
  /\ cloud_v = <<>>
  /\ color_v = <<>>
  /\ warnings = <<>>
  /\ fusions = <<>>
  /\ n_created = 0
  /\ ncalls = 0

-----------------------------------------------------------------------------
(* Part II: MapEvaluator::computeReconstructionError                         *)
(*                                                                            *)
(* Distances are integers (a fixed small unit); mean, stddev and rmse are     *)
(* kept exact as a rational num/den or the square root of one.                *)

MaxPoints == 3

\* total_points / 100 (line 135): the divisor of the progress interval.
ProgressSteps == 100

\* A ground-truth point as the run sees it: whether bounds->pointIsValid
\* accepts it, whether planning_->getDistance knows a distance there, and
\* that signed distance.
OutOfBounds == [valid |-> FALSE, known |-> FALSE, dist |-> 0]
Unknown == [valid |-> TRUE, known |-> FALSE, dist |-> 0]
Known(d) == [valid |-> TRUE, known |-> TRUE, dist |-> d]

PointKinds == {OutOfBounds, Unknown, Known(0), Known(1), Known(-2), Known(3)}
MaxDistances == {1, 2}

\* Ground-truth sets of up to MaxPoints points, and the same sets filled up to
\* ProgressSteps points so that the progress interval is not 0.
SmallClouds == SeqsUpTo(PointKinds, MaxPoints)
Pad(c, k) == c \o [i \in 1..(ProgressSteps - Len(c)) |-> k]
Clouds == SmallClouds \cup {Pad(c, k) : c \in SmallClouds, k \in {OutOfBounds, Unknown}}

\* What the build may do with count % 0: trap, or yield a value that makes
\* the comparison with 0 true or false.
UbOutcomes == {"fault", "true", "false"}

Abs(x) == IF x < 0 THEN -x ELSE x
Rat(n, d) == [root |-> FALSE, num |-> n, den |-> d]
Root(n, d) == [root |-> TRUE, num |-> n, den |-> d]
IsZero(v) == v.num = 0

RECURSIVE Sum(_, _)
Sum(v, i) == IF i > Len(v) THEN 0 ELSE v[i] + Sum(v, i + 1)
RECURSIVE SumSq(_, _)
SumSq(v, i) == IF i > Len(v) THEN 0 ELSE v[i] * v[i] + SumSq(v, i + 1)
\* sum over the samples of (n * value - S)^2, i.e. n^2 * sum (value - S/n)^2
RECURSIVE SumDevSq(_, _, _, _)
SumDevSq(v, n, S, i) ==
  IF i > Len(v) THEN 0
  ELSE (n * v[i] - S) * (n * v[i] - S) + SumDevSq(v, n, S, i + 1)

ErrorStart ==
  [unknown_points |-> 0, truncated_points |-> 0, abserror |-> <<>>,
   count |-> 0, displays |-> 0, ub |-> FALSE, fault |-> FALSE]

\* Mutant: a truncated sample is counted but not recorded.
ErrorStep_DropTruncated(a, pt, maxd, interval, ubres) ==
  IF a.fault \/ ~pt.valid THEN a
  ELSE LET a1 == IF pt.known
                 THEN IF Abs(pt.dist) > maxd
                      THEN [a EXCEPT !.truncated_points = @ + 1]
                      ELSE [a EXCEPT !.abserror = Append(@, Abs(pt.dist))]
                 ELSE [a EXCEPT !.unknown_points = @ + 1]
       IN IF interval = 0
          THEN [a1 EXCEPT !.ub = TRUE, !.fault = (ubres = "fault"),
                          !.displays = @ + (IF ubres = "true" THEN 1 ELSE 0),
                          !.count = @ + 1]
          ELSE [a1 EXCEPT !.displays = @ + (IF a.count % interval = 0 THEN 1 ELSE 0),
                          !.count = @ + 1]

\* One iteration of the loop over the ground truth (lines 140-162). With
\* interval = 0 the progress test count % interval is undefined: ubres is
\* what the build makes of it.
ErrorStep(a, pt, maxd, interval, ubres) ==
  IF a.fault \/ ~pt.valid THEN a
  ELSE LET a1 == IF pt.known
                 THEN IF Abs(pt.dist) > maxd
                      THEN [a EXCEPT !.truncated_points = @ + 1,
                                     !.abserror = Append(@, Abs(maxd))]
                      ELSE [a EXCEPT !.abserror = Append(@, Abs(pt.dist))]
                 ELSE [a EXCEPT !.unknown_points = @ + 1]
       IN IF interval = 0
          THEN [a1 EXCEPT !.ub = TRUE, !.fault = (ubres = "fault"),
                          !.displays = @ + (IF ubres = "true" THEN 1 ELSE 0),
                          !.count = @ + 1]
          ELSE [a1 EXCEPT !.displays = @ + (IF a.count % interval = 0 THEN 1 ELSE 0),
                          !.count = @ + 1]

\* The loop over positions lo..hi of the ground truth, in input order. The
\* range is walked by halves, the left half first and its result bound as a
\* value before the right half starts, which keeps the evaluation shallow.
RECURSIVE ErrorLoop(_, _, _, _, _, _, _)
ErrorLoop(a, cloud, maxd, interval, ubres, lo, hi) ==
  IF lo > hi THEN a
  ELSE IF lo = hi THEN ErrorStep(a, cloud[lo], maxd, interval, ubres)
  ELSE LET mid == (lo + hi) \div 2
       IN CHOOSE r \in {ErrorLoop(x, cloud, maxd, interval, ubres, mid + 1, hi) :
                          x \in {ErrorLoop(a, cloud, maxd, interval, ubres, lo, mid)}} : TRUE

\* The summary of lines 165-182 over the recorded samples.
MeanOf(abserror) ==
  IF abserror = <<>> THEN Rat(0, 1) ELSE Rat(Sum(abserror, 1), Len(abserror))
RmseOf(abserror) ==
  IF abserror = <<>> THEN Rat(0, 1) ELSE Root(SumSq(abserror, 1), Len(abserror))
StddevOf(abserror) ==
  LET n == Len(abserror)
      acc == IF n = 0 THEN Rat(0, 1)
             ELSE Rat(SumDevSq(abserror, n, Sum(abserror, 1), 1), n * n)
  IN IF n > 2 THEN Root(acc.num, acc.den * (n - 1)) ELSE acc

Header == "MeanError [m],StdError [m],RMSE [m],TotalPoints [1],UnknownPoints [1],TruncatedPoints [1]"

\* MapEvaluator::computeReconstructionError on ground truth `cloud`. A fault
\* ends the process inside the loop: nothing is written.
computeReconstructionError(cloud, maxd, ubres) ==
  LET total_points == Len(cloud)
      interval == total_points \div ProgressSteps
      a == ErrorLoop(ErrorStart, cloud, maxd, interval, ubres, 1, Len(cloud))
      row == [mean |-> MeanOf(a.abserror),
              stddev |-> StddevOf(a.abserror),
              rmse |-> RmseOf(a.abserror),
              total_points |-> total_points,
              unknown_points |-> a.unknown_points,
              truncated_points |-> a.truncated_points]
  IN [status |-> IF a.fault THEN "fault" ELSE "done",
      ub |-> a.ub,
      unknown_points |-> a.unknown_points,
      truncated_points |-> a.truncated_points,
      abserror |-> a.abserror,
      displays |-> IF a.fault THEN a.displays ELSE a.displays + 1,
      rows |-> IF a.fault THEN <<>> ELSE <<Header, row>>]

InBoundsCount(cloud) == Len(SelectSeq(cloud, LAMBDA pt : pt.valid))

ErrIdle ==
  [status |-> "idle", ub |-> FALSE, unknown_points |-> 0,
   truncated_points |-> 0, abserror |-> <<>>, displays |-> 0, rows |-> <<>>]

ComputeReconstructionError(ubres) ==
  /\ err.status = "idle"
  /\ err' = computeReconstructionError(err_req.cloud, err_req.maximum_distance, ubres)
  /\ UNCHANGED err_req
  /\ UNCHANGED <<intVars, visVars, evalVars>>

IdleError ==
  /\ err_req = [cloud |-> <<>>, maximum_distance |-> 1]
  /\ err = ErrIdle

InitError ==
  /\ err_req \in [cloud : Clouds, maximum_distance : MaxDistances]
  /\ err = ErrIdle

-----------------------------------------------------------------------------
(* Part III: MapEvaluator::visualizeReconstructionError                      *)
(*                                                                            *)
(* A map is a sequence of submaps; a submap holds its voxel size squared,     *)
(* its truncation distance and its allocated blocks, each a sequence of       *)
(* voxels_per_side^3 voxels [distance, weight, color]. For every voxel the    *)
(* environment env gives what the collaborators answer at it: whether the     *)
(* Bounds Policy accepts its center, and the kd-tree's results in ascending   *)
(* distance, each with its squared distance to the center and the answer of   *)
(* the interpolator at that ground-truth point.                               *)

MaxNeighbors == 2

Neutral == <<128, 128, 128>>
StoredColor == <<10, 20, 30>>

\* ---- float arithmetic ----
\* total_error, the interpolated distances, request.maximum_distance and
\* frac, r, g are C++ floats: IEEE-754 binary32 values, every operation
\* rounded to the nearest value, ties to even. A float is [s, m, e] standing
\* for s * m * 2^e with s in {1, -1} and 2^23 <= m < 2^24, or m = 0 (then
\* s = 1, e = 0). Exponents stay far inside the binary32 range here, so
\* overflow, subnormals, infinities and NaN are not represented.
Pow2(k) == 2 ^ k

MantMin == Pow2(23)
MantLimit == Pow2(24)

FZero == [s |-> 1, m |-> 0, e |-> 0]

RECURSIVE ShiftOf(_)
ShiftOf(n) == IF n < MantLimit THEN 0 ELSE 1 + ShiftOf(n \div 2)

Sign(k) == IF k < 0 THEN -1 ELSE 1

\* A mantissa rounded up to 2^24 is 2^23 one exponent higher.
Carry(sgn, q, e) ==
  IF q = MantLimit THEN [s |-> sgn, m |-> MantMin, e |-> e + 1]
  ELSE [s |-> sgn, m |-> q, e |-> e]

\* q with the bits rem cut off below it, half being the weight of the first
\* of them: to the nearest, ties to the even mantissa.
RoundTo(sgn, q, rem, half, e) ==
  Carry(sgn, IF rem > half \/ (rem = half /\ q % 2 = 1) THEN q + 1 ELSE q, e)

RoundAt(sgn, n, e, sh) ==
  RoundTo(sgn, n \div Pow2(sh), n % Pow2(sh), Pow2(sh - 1), e + sh)

\* The float nearest to sgn * n * 2^e, n a natural number.
RECURSIVE Round(_, _, _)
Round(sgn, n, e) ==
  IF n = 0 THEN FZero
  ELSE IF n < Pow2(12) THEN Round(sgn, n * Pow2(12), e - 12)
  ELSE IF n < MantMin THEN Round(sgn, 2 * n, e - 1)
  ELSE IF n < MantLimit THEN [s |-> sgn, m |-> n, e |-> e]
  ELSE RoundAt(sgn, n, e, ShiftOf(n))

\* The float k * 2^e of a literal or a stored value, k an integer.
Flt(k, e) == Round(Sign(k), Abs(k), e)

\* int to float, as counted_voxels is converted in line 304.
FromInt(k) == Flt(k, 0)

FNeg(a) == IF a.m = 0 THEN a ELSE [a EXCEPT !.s = -@]
FAbs(a) == [a EXCEPT !.s = 1]

MagLess(a, b) ==
  IF b.m = 0 THEN FALSE
  ELSE IF a.m = 0 THEN TRUE
  ELSE a.e < b.e \/ (a.e = b.e /\ a.m < b.m)

\* a < b
FLess(a, b) ==
  IF a.s # b.s THEN a.s < b.s
  ELSE IF a.s = 1 THEN MagLess(a, b) ELSE MagLess(b, a)

\* a <= b
FLeq(a, b) == ~FLess(b, a)

\* std::min(a, b): b when b < a, else a.
FMin(a, b) == IF FLess(b, a) THEN b ELSE a

\* big + small for small = ss * (q + f) * 2^(big.e - 5), 0 <= f < 1, st
\* telling whether f > 0: the bits of f only decide the rounding and are
\* kept as one sticky bit.
AddSticky(big, ss, q, st) ==
  Round(big.s,
        2 * (IF big.s = ss THEN big.m * 32 + q ELSE big.m * 32 - q - st) + st,
        big.e - 6)

\* big + small, big.e - small.e = d >= 0: exactly aligned when d <= 5.
AddAligned(big, small, d) ==
  IF d <= 5
  THEN Flt(big.s * big.m * Pow2(d) + small.s * small.m, small.e)
  ELSE IF d >= 29 THEN AddSticky(big, small.s, 0, 1)
  ELSE AddSticky(big, small.s, small.m \div Pow2(d - 5),
                 IF small.m % Pow2(d - 5) # 0 THEN 1 ELSE 0)

\* a + b
FAdd(a, b) ==
  IF a.m = 0 THEN b
  ELSE IF b.m = 0 THEN a
  ELSE IF a.e >= b.e THEN AddAligned(a, b, a.e - b.e)
  ELSE AddAligned(b, a, b.e - a.e)

\* a - b
FSub(a, b) == FAdd(a, FNeg(b))

\* The 48-bit product (hi * 2^16 + mid) * 2^12 + ll of two mantissas given
\* in units of 2^e: its top 28 bits exactly and the rest as one sticky bit.
MulSum(sgn, hi, mid, ll, e) ==
  Round(sgn,
        2 * (hi * 16 + mid \div 256) + (IF mid % 256 # 0 \/ ll # 0 THEN 1 ELSE 0),
        e + 19)

\* The product of the mantissas ah * 2^12 + al and bh * 2^12 + bl.
MulHalves(sgn, ah, al, bh, bl, e) ==
  MulSum(sgn, ah * bh, ah * bl + al * bh + (al * bl) \div Pow2(12),
         (al * bl) % Pow2(12), e)

\* a * b
FMul(a, b) ==
  IF a.m = 0 \/ b.m = 0 THEN FZero
  ELSE MulHalves(a.s * b.s, a.m \div Pow2(12), a.m % Pow2(12),
                 b.m \div Pow2(12), b.m % Pow2(12), a.e + b.e)

\* Long division: 5 * k more quotient bits of r / d after the quotient q,
\* five bits a step.
RECURSIVE DivBits(_, _, _, _)
DivBits(q, r, d, k) ==
  IF k = 0 THEN <<q, r>>
  ELSE DivBits(32 * q + (32 * r) \div d, (32 * r) % d, d, k - 1)

\* The quotient qr[1] with remainder qr[2], in units of 2^e.
DivRound(sgn, qr, e) ==
  Round(sgn, 2 * qr[1] + (IF qr[2] # 0 THEN 1 ELSE 0), e - 1)

\* a / b, b not zero.
FDiv(a, b) ==
  IF a.m = 0 THEN FZero
  ELSE DivRound(a.s * b.s, DivBits(a.m \div b.m, a.m % b.m, b.m, 5),
                a.e - b.e - 25)

\* float to uint8_t, as the arguments of Color(r, g, 0) are converted: the
\* value cut toward zero. The values converted lie in [0, 256).
ToUint8(a) ==
  IF a.m = 0 \/ a.e <= -24 THEN 0
  ELSE IF a.e < 0 THEN a.m \div Pow2(-a.e)
  ELSE a.m * Pow2(a.e)

\* The float literals of lines 306-309.
Half == Flt(1, -1)
One == Flt(1, 0)
Two == Flt(2, 0)
F130 == Flt(130, 0)
F190 == Flt(190, 0)
F255 == Flt(255, 0)

\* frac of lines 302-305.
Frac(total_error, counted_voxels, maxd) ==
  FDiv(FMin(FDiv(total_error, FromInt(counted_voxels)), maxd), maxd)

\* r of line 306.
Red(frac) == FMul(FMin(FAdd(FMul(FSub(frac, Half), Two), One), One), F255)

\* g of lines 307-309.
Green(frac) ==
  IF FLeq(frac, Half) THEN FAdd(F190, FMul(F130, frac))
  ELSE FMul(FMul(FSub(One, frac), Two), F255)

\* voxblox::Color(r, g, 0) of line 310.
ColorOf(frac) == <<ToUint8(Red(frac)), ToUint8(Green(frac)), 0>>

\* Color(r, g, 0) of lines 302-310.
GradientColor(total_error, counted_voxels, maxd) ==
  ColorOf(Frac(total_error, counted_voxels, maxd))

\* Mutant: the nearest result is filtered by distance like the others.
NeighborStep_FilterAll(acc, i, nb, voxel_size_sqr) ==
  IF nb.dist_sqr > voxel_size_sqr THEN acc
  ELSE IF nb.interp.ok
       THEN [total_error |-> FAdd(acc.total_error, FAbs(nb.interp.dist)),
             counted_voxels |-> acc.counted_voxels + 1]
       ELSE acc

\* One iteration of the loop over the results (lines 287-297); i is the
\* C++ index, 0 for the nearest result.
NeighborStep(acc, i, nb, voxel_size_sqr) ==
  IF i # 0 /\ nb.dist_sqr > voxel_size_sqr THEN acc
  ELSE IF nb.interp.ok
       THEN [total_error |-> FAdd(acc.total_error, FAbs(nb.interp.dist)),
             counted_voxels |-> acc.counted_voxels + 1]
       ELSE acc

RECURSIVE NeighborLoop(_, _, _, _)
NeighborLoop(acc, knn, voxel_size_sqr, i) ==
  IF i >= Len(knn) THEN acc
  ELSE NeighborLoop(NeighborStep(acc, i, knn[i + 1], voxel_size_sqr),
                    knn, voxel_size_sqr, i + 1)

\* The body of the loop over the voxels of a block (lines 256-311).
RecolorVoxel(voxel, e, voxel_size_sqr, truncation_distance, maxd) ==
  IF voxel.distance > truncation_distance \/ voxel.distance < -truncation_distance
  THEN voxel
  ELSE IF ~e.in_bounds THEN [voxel EXCEPT !.color = Neutral]
  ELSE IF Len(e.knn) = 0 THEN [voxel EXCEPT !.color = Neutral]
  ELSE LET acc == NeighborLoop([total_error |-> FZero, counted_voxels |-> 0],
                               e.knn, voxel_size_sqr, 0)
       IN IF acc.counted_voxels = 0 THEN [voxel EXCEPT !.color = Neutral]
          ELSE [voxel EXCEPT
                  !.color = GradientColor(acc.total_error, acc.counted_voxels, maxd)]

\* One iteration of the loop over the submaps (lines 239-319): every voxel of
\* every allocated block, then updateMesh.
RecolorSubmap(sm, esm, maxd) ==
  LET num_voxels_per_block ==
        sm.voxels_per_side * sm.voxels_per_side * sm.voxels_per_side
  IN [sm EXCEPT
        !.blocks = [b \in 1..Len(sm.blocks) |->
                      [v \in 1..num_voxels_per_block |->
                         RecolorVoxel(sm.blocks[b][v], esm[b][v], sm.voxel_size_sqr,
                                      sm.truncation_distance, maxd)]],
        !.mesh_updates = @ + 1]

\* MapEvaluator::visualizeReconstructionError: the recolored map, and whether
\* saveToFile stored it (its result is not looked at).
visualizeReconstructionError(map, env, maxd, save_ok) ==
  [status |-> "done",
   map |-> [s \in 1..Len(map) |-> RecolorSubmap(map[s], env[s], maxd)],
   saved |-> save_ok]

\* The maps explored: two submaps of different voxel size and truncation
\* distance, three single-voxel blocks in all. One voxel, the probe, takes
\* every stored distance and every environment; the others are fixed.
Voxel(d) == [distance |-> d, weight |-> 1, color |-> StoredColor]
Neighbor(dsq, ok, d) == [dist_sqr |-> dsq, interp |-> [ok |-> ok, dist |-> d]]

VoxelDistances == {-2, -1, 0, 2}
\* The interpolated distances 0, -1, 2 and 0.5, and the values of
\* request.maximum_distance 1, 2 and 3.
InterpolatedDistances == {Flt(0, 0), Flt(-1, 0), Flt(2, 0), Flt(1, -1)}
ColoringDistances == {Flt(1, 0), Flt(2, 0), Flt(3, 0)}
NeighborKinds ==
  {Neighbor(dsq, FALSE, FZero) : dsq \in {1, 2}}
    \cup {Neighbor(dsq, TRUE, d) : dsq \in {1, 2}, d \in InterpolatedDistances}
KnnResults ==
  {k \in SeqsUpTo(NeighborKinds, MaxNeighbors) :
     \A i \in 1..(Len(k) - 1) : k[i].dist_sqr <= k[i + 1].dist_sqr}
VoxelEnvs == [in_bounds : BOOLEAN, knn : KnnResults]

Slots == {<<1, 1>>, <<1, 2>>, <<2, 1>>}
BackgroundVoxel == Voxel(0)
BackgroundEnv == [in_bounds |-> TRUE, knn |-> <<Neighbor(0, TRUE, Flt(1, 0))>>]

MapWith(slot, voxel) ==
  LET at(s, b) == IF <<s, b>> = slot THEN voxel ELSE BackgroundVoxel
  IN <<[voxel_size_sqr |-> 1, truncation_distance |-> 1, voxels_per_side |-> 1,
        mesh_updates |-> 0, blocks |-> <<<<at(1, 1)>>, <<at(1, 2)>>>>],
       [voxel_size_sqr |-> 4, truncation_distance |-> 2, voxels_per_side |-> 1,
        mesh_updates |-> 0, blocks |-> <<<<at(2, 1)>>>>]>>

EnvWith(slot, e) ==
  LET at(s, b) == IF <<s, b>> = slot THEN e ELSE BackgroundEnv
  IN <<<<<<at(1, 1)>>, <<at(1, 2)>>>>, <<<<at(2, 1)>>>>>>

VisIdle == [status |-> "idle", map |-> <<>>, saved |-> FALSE]

VisualizeReconstructionError(save_ok) ==
  /\ vis.status = "idle"
  /\ vis' = visualizeReconstructionError(vis_req.map, vis_req.env,
                                         vis_req.maximum_distance, save_ok)
  /\ UNCHANGED vis_req
  /\ UNCHANGED <<intVars, errVars, evalVars>>

IdleColoring ==
  /\ vis_req = [map |-> <<>>, env |-> <<>>, maximum_distance |-> Flt(1, 0)]
  /\ vis = VisIdle

InitColoring ==
  /\ \E slot \in Slots, d \in VoxelDistances, e \in VoxelEnvs, m \in ColoringDistances :
       vis_req = [map |-> MapWith(slot, Voxel(d)), env |-> EnvWith(slot, e),
                  maximum_distance |-> m]
  /\ vis = VisIdle

-----------------------------------------------------------------------------
(* Part IV: MapEvaluator::evaluate                                           *)
(*                                                                            *)
(* File names that the code takes apart (map_file) are sequences of           *)
(* one-character strings; the ground-truth file name is only compared with    *)
(* the empty string and handed to the loader.                                 *)

MaxRuns == 2

\* ---- the files of the explored world ----
GoodMap == <<"/", "d", "/", "m", ".", "p", "a", "n", "m", "a", "p">>
BadMap == <<"/", "d", "/", "x", ".", "p", "a", "n", "m", "a", "p">>
MapFiles == {<<>>, GoodMap, BadMap}
GtFiles == {"", "gt3.ply", "gt100.ply", "bad.ply"}
Directories == {<<"/", "d">>}

\* pcl::io::loadPLYFile(file, cloud) = 0, and the cloud it yields.
GtReadable(f) == f \in {"gt3.ply", "gt100.ply"}
GtContent(f) ==
  IF f = "gt3.ply" THEN <<Known(0), Known(0), Known(0)>>
  ELSE Pad(<<Known(3), Unknown, Known(1)>>, OutOfBounds)

\* submaps_->loadFromFile(file), the map it yields, and what the
\* collaborators answer at its voxels: the first voxel has one ground-truth
\* point nearby, at distance 1; the others lie out of bounds.
MapReadable(f) == f = GoodMap
MapContent(f) == MapWith(<<1, 1>>, Voxel(1))
MapEnv(f) ==
  LET near == [in_bounds |-> TRUE, knn |-> <<Neighbor(0, TRUE, Flt(1, 0))>>]
      out == [in_bounds |-> FALSE, knn |-> <<>>]
  IN <<<<<<near>>, <<out>>>>, <<<<out>>>>>>

\* ---- std::string operations used on map_file ----
\* find_last_of(c): the 0-based position, or -1 for npos (npos = 2^64 - 1 is
\* -1 modulo 2^64, so size_t arithmetic with it is arithmetic with -1).
RECURSIVE FindLastOf(_, _, _)
FindLastOf(str, c, i) ==
  IF i = 0 THEN -1
  ELSE IF str[i] = c THEN i - 1
  ELSE FindLastOf(str, c, i - 1)

\* substr(pos, count) for 0-based pos <= size; a count that is negative here
\* is a huge size_t, and like any count past the end yields the rest.
Substr(str, pos, count) ==
  LET n == IF count < 0 \/ pos + count > Len(str) THEN Len(str) - pos ELSE count
  IN SubSeq(str, pos + 1, pos + n)

EvaluationDataCsv ==
  <<"_", "e", "v", "a", "l", "u", "a", "t", "i", "o", "n", "_", "d", "a", "t", "a",
    ".", "c", "s", "v">>
EvaluatedPanmap ==
  <<"_", "e", "v", "a", "l", "u", "a", "t", "e", "d", ".", "p", "a", "n", "m", "a", "p">>

\* ---- request validation ----
\* Mutant: a zero maximum_distance passes.
checkParams_AllowZero(req) == req.maximum_distance >= 0

\* EvaluationRequest::checkParams: checkParamGT(maximum_distance, 0.f, ...)
checkParams(req) == req.maximum_distance > 0

isValid(req) == checkParams(req)

NullCloud == [ptr |-> FALSE, cloud |-> <<>>]
NullMap == [ptr |-> FALSE, file |-> <<>>, map |-> <<>>]
NullPlanning == [ptr |-> FALSE, file |-> <<>>]

Return(st, res) == [st EXCEPT !.result = res]
Log(st, e) == [st EXCEPT !.events = Append(@, e)]

\* Mutant: the check that a ground truth is loaded is missing.
LoadGroundTruth_NoNullCheck(st, req) ==
  IF ~(req.evaluate \/ req.compute_coloring) THEN st
  ELSE IF req.ground_truth_pointcloud_file = "" THEN st
  ELSE IF ~GtReadable(req.ground_truth_pointcloud_file)
  THEN Return(Log([st EXCEPT !.gt = NullCloud], "gt_load_failed"), "false")
  ELSE Log([st EXCEPT !.gt = [ptr |-> TRUE,
                              cloud |-> GtContent(req.ground_truth_pointcloud_file)]],
           "gt_loaded")

\* Lines 46-63. st.result = "running" until a return is taken.
LoadGroundTruth(st, req) ==
  IF ~(req.evaluate \/ req.compute_coloring) THEN st
  ELSE LET st1 ==
             IF req.ground_truth_pointcloud_file = "" THEN st
             ELSE IF ~GtReadable(req.ground_truth_pointcloud_file)
             THEN Return(Log([st EXCEPT !.gt = NullCloud], "gt_load_failed"), "false")
             ELSE Log([st EXCEPT
                         !.gt = [ptr |-> TRUE,
                                 cloud |-> GtContent(req.ground_truth_pointcloud_file)]],
                      "gt_loaded")
       IN IF st1.result # "running" THEN st1
          ELSE IF ~st1.gt.ptr THEN Return(Log(st1, "no_gt"), "false")
          ELSE st1

\* Lines 64-87.
LoadMap(st, req) ==
  IF st.result # "running" THEN st
  ELSE IF ~(req.visualize \/ req.evaluate \/ req.compute_coloring) THEN st
  ELSE LET st1 ==
             IF req.map_file = <<>> THEN st
             ELSE IF ~MapReadable(req.map_file)
             THEN Return(Log([st EXCEPT !.submaps = NullMap], "map_load_failed"),
                         "false")
             ELSE LET separator == FindLastOf(req.map_file, "/", Len(req.map_file))
                  IN Log([st EXCEPT
                            !.submaps = [ptr |-> TRUE, file |-> req.map_file,
                                         map |-> MapContent(req.map_file)],
                            !.planning = [ptr |-> TRUE, file |-> req.map_file],
                            !.dir = IF separator = -1 THEN req.map_file
                                    ELSE Substr(req.map_file, 0, separator),
                            !.name = Substr(req.map_file, separator + 1,
                                            Len(req.map_file) - separator - 8)],
                         "map_loaded")
       IN IF st1.result # "running" THEN st1
          ELSE IF ~st1.submaps.ptr THEN Return(Log(st1, "no_map"), "false")
          ELSE st1

\* Lines 89-103: the sink is opened (and thereby emptied), the error pass
\* writes its two rows, the sink is closed. A fault inside the pass ends the
\* process with the sink still empty.
Evaluate_Report(st, req, sink_ok, ubres) ==
  IF st.result # "running" \/ ~req.evaluate THEN st
  ELSE LET out_file_name == st.dir \o <<"/">> \o st.name \o EvaluationDataCsv
       IN IF ~sink_ok THEN Return(Log(st, "sink_failed"), "false")
          ELSE LET e == computeReconstructionError(st.gt.cloud,
                                                   req.maximum_distance, ubres)
                   opened == [st EXCEPT !.disk =
                                [q \in DOMAIN @ \cup {out_file_name} |->
                                   IF q = out_file_name THEN e.rows ELSE @[q]]]
               IN IF e.status = "fault"
                  THEN Return(Log(Log(opened, "sink_opened"), "error_pass"), "fault")
                  ELSE Log(Log(Log(opened, "sink_opened"), "error_pass"),
                           "report_written")

\* Lines 105-109 with lines 321-323: the coloring pass recolors submaps_ in
\* place and saves it; evaluate goes on whatever saveToFile returns.
Evaluate_Coloring(st, req, save_ok) ==
  IF st.result # "running" \/ ~req.compute_coloring THEN st
  ELSE LET v == visualizeReconstructionError(st.submaps.map, MapEnv(st.submaps.file),
                                             Flt(req.maximum_distance, 0), save_ok)
           path == st.dir \o <<"/">> \o st.name \o EvaluatedPanmap
           st1 == Log([st EXCEPT !.submaps.map = v.map], "coloring_pass")
       IN IF ~v.saved THEN Log(st1, "save_failed")
          ELSE Log([st1 EXCEPT !.disk =
                      [q \in DOMAIN @ \cup {path} |->
                         IF q = path THEN v.map ELSE @[q]]],
                   "map_saved")

\* Lines 111-118.
Evaluate_Publish(st, req) ==
  IF st.result # "running" THEN st
  ELSE Return(IF req.visualize THEN Log(st, "published") ELSE st, "true")

\* MapEvaluator::evaluate.
evaluate(st, req, sink_ok, save_ok, ubres) ==
  IF ~isValid(req) THEN Return(st, "false")
  ELSE Evaluate_Publish(
         Evaluate_Coloring(
           Evaluate_Report(LoadMap(LoadGroundTruth(st, req), req),
                           req, sink_ok, ubres),
           req, save_ok),
         req)

\* The requests explored. verbosity only selects log lines and is left out.
ValidRequests ==
  [map_file : MapFiles, ground_truth_pointcloud_file : GtFiles,
   maximum_distance : {2}, evaluate : BOOLEAN, visualize : BOOLEAN,
   compute_coloring : BOOLEAN]
InvalidRequests ==
  [map_file : MapFiles, ground_truth_pointcloud_file : {"", "gt100.ply"},
   maximum_distance : {-1, 0}, evaluate : {TRUE}, visualize : BOOLEAN,
   compute_coloring : {TRUE}]
Requests == ValidRequests \cup InvalidRequests

\* What the surroundings may answer in a run that gets that far: whether the
\* sink opens (never outside an existing directory), whether saveToFile
\* succeeds, and what the build makes of an undefined progress test.
SinkChoices(st, req) ==
  IF isValid(req) /\ req.evaluate /\ st.result = "running" /\ st.dir \in Directories
  THEN BOOLEAN ELSE {FALSE}
SaveChoices(st, req) ==
  IF isValid(req) /\ req.compute_coloring /\ st.result = "running"
     /\ st.dir \in Directories
  THEN BOOLEAN ELSE {FALSE}
UbChoices(st, req, sink_ok) ==
  IF isValid(req) /\ req.evaluate /\ st.result = "running" /\ sink_ok
     /\ Len(st.gt.cloud) < ProgressSteps /\ InBoundsCount(st.gt.cloud) > 0
  THEN UbOutcomes ELSE {"true"}

Evaluate(req) ==
  /\ nruns < MaxRuns
  /\ LET st0 == [gt |-> gt_ptcloud_, submaps |-> submaps_, planning |-> planning_,
                 dir |-> target_directory_, name |-> target_map_name_,
                 disk |-> disk, result |-> "running", events |-> <<>>]
         loaded == LoadMap(LoadGroundTruth(st0, req), req)
     IN \E sink_ok \in SinkChoices(loaded, req), save_ok \in SaveChoices(loaded, req) :
          \E ubres \in UbChoices(loaded, req, sink_ok) :
            \E st \in {evaluate(st0, req, sink_ok, save_ok, ubres)} :
               /\ gt_ptcloud_' = st.gt
               /\ submaps_' = st.submaps
               /\ planning_' = st.planning
               /\ target_directory_' = st.dir
               /\ target_map_name_' = st.name
               /\ disk' = st.disk
               /\ result' = st.result
               /\ events' = st.events
  /\ last_req' = req
  /\ nruns' = nruns + 1
  /\ UNCHANGED <<intVars, errVars, visVars>>

NoRequest ==
  [map_file |-> <<>>, ground_truth_pointcloud_file |-> "", maximum_distance |-> 1,
   evaluate |-> FALSE, visualize |-> FALSE, compute_coloring |-> FALSE]

\* MapEvaluator::MapEvaluator: nothing loaded.
InitEvaluator ==
  /\ gt_ptcloud_ = NullCloud
  /\ submaps_ = NullMap
  /\ planning_ = NullPlanning
  /\ target_directory_ = <<>>
  /\ target_map_name_ = <<>>
  /\ disk = <<>>
  /\ last_req = NoRequest
  /\ result = "none"
  /\ events = <<>>
  /\ nruns = 0

-----------------------------------------------------------------------------
(* Specifications *)

Init == InitIntegrator /\ IdleError /\ IdleColoring /\ InitEvaluator

Next ==
  \/ \E f \in Frames : ProcessPointcloud(f)
  \/ \E ok \in BOOLEAN, t \in IntegratorTypes : SetupFromConfig(ok, t)

Spec == Init /\ [][Next]_vars

IdleIntegrator ==
  /\ config_ = "fast"
  /\ tsdf_integrator_ = NullIntegrator
  /\ submap_ids = {}
  /\ layers = [i \in Ids |-> EmptyLayer]
  /\ frame = NoFrame
  /\ id_v = <<>>
  /\ cloud_v = <<>>
  /\ color_v = <<>>
  /\ warnings = <<>>
  /\ fusions = <<>>
  /\ n_created = 0
  /\ ncalls = 0

InitErrorSpec == IdleIntegrator /\ InitError /\ IdleColoring /\ InitEvaluator

NextError == \E ubres \in UbOutcomes : ComputeReconstructionError(ubres)

SpecError == InitErrorSpec /\ [][NextError]_vars

InitColoringSpec == IdleIntegrator /\ IdleError /\ InitColoring /\ InitEvaluator

NextColoring == \E save_ok \in BOOLEAN : VisualizeReconstructionError(save_ok)

SpecColoring == InitColoringSpec /\ [][NextColoring]_vars

InitEvalSpec == IdleIntegrator /\ IdleError /\ IdleColoring /\ InitEvaluator

NextEval == \E req \in Requests : Evaluate(req)

SpecEval == InitEvalSpec /\ [][NextEval]_vars

-----------------------------------------------------------------------------
(* Properties of Part I                                                      *)

\* The ids occurring in a frame, and the input positions carrying id x.
IdsOf(f) == {f.ids[i] : i \in 1..Len(f.ids)}
PositionsOf(f, x) == SelectSeq([i \in 1..Len(f.ids) |-> i], LAMBDA i : f.ids[i] = x)
FirstPosition(f, x) == PositionsOf(f, x)[1]
Restrict(seq, pos) == [m \in 1..Len(pos) |-> seq[pos[m]]]

RECURSIVE SumLen(_, _)
SumLen(v, i) == IF i > Len(v) THEN 0 ELSE Len(v[i]) + SumLen(v, i + 1)

\* C1: the segmentation pass yields one group per distinct id, ids pairwise
\* distinct and ordered by first occurrence, sizes summing to n, each group
\* holding exactly the points and colors of its id in input order.
C1_Grouping ==
  LET k == Cardinality(IdsOf(frame))
  IN /\ Len(id_v) = k /\ Len(cloud_v) = k /\ Len(color_v) = k
     /\ \A a, b \in 1..Len(id_v) : a # b => id_v[a] # id_v[b]
     /\ \A a \in 1..Len(id_v) : id_v[a] \in IdsOf(frame)
     /\ \A a, b \in 1..Len(id_v) :
          a < b => FirstPosition(frame, id_v[a]) < FirstPosition(frame, id_v[b])
     /\ SumLen(cloud_v, 1) = Len(frame.ids)
     /\ SumLen(color_v, 1) = Len(frame.ids)
     /\ \A a \in 1..Len(id_v) :
          /\ cloud_v[a] = Restrict(frame.pointcloud, PositionsOf(frame, id_v[a]))
          /\ color_v[a] = Restrict(frame.colors, PositionsOf(frame, id_v[a]))

\* A frame whose ids interleave (3,1,3) has been segmented into two groups.
C1_Witness ==
  /\ ncalls > 0
  /\ frame.ids = <<3, 1, 3>>
  /\ id_v = <<3, 1>>
  /\ cloud_v = <<<<PointAt(1), PointAt(3)>>, <<PointAt(2)>>>>

\* The group of id x in the segmentation of the last call (x occurs in it).
GroupIndex(v, x) == CHOOSE a \in 1..Len(v) : v[a] = x
FusionsOf(fs, x) == SelectSeq(fs, LAMBDA e : e.group = x)

\* C2: a call leaves the collection's key set alone, warns exactly once per
\* distinct missing id, changes no layer on behalf of a missing group, and
\* integrates every group whose id is present.
C2_Step ==
  (ncalls' = ncalls + 1) =>
    LET missing == IdsOf(frame') \ submap_ids
        present == IdsOf(frame') \cap submap_ids
    IN /\ submap_ids' = submap_ids
       /\ Len(warnings') = Cardinality(missing)
       /\ {warnings'[i] : i \in 1..Len(warnings')} = missing
       /\ \A x \in missing : FusionsOf(fusions', x) = <<>>
       /\ \A x \in Ids \ present : layers'[x] = layers[x]
       /\ \A x \in present :
            LET a == GroupIndex(id_v', x)
            IN /\ Len(FusionsOf(fusions', x)) = 1
               /\ FusionsOf(fusions', x)[1].bound = x
               /\ FusionsOf(fusions', x)[1].points = cloud_v'[a]
               /\ FusionsOf(fusions', x)[1].colors = color_v'[a]
               /\ layers'[x] = [integrations |-> layers[x].integrations + 1]

C2_MissingSubmap == [][C2_Step]_vars

\* Ids (1,2,1) against a collection holding only submap 2: one warning for
\* id 1, the one point of id 2 integrated.
C2_Witness ==
  /\ ncalls > 0
  /\ frame.ids = <<1, 2, 1>>
  /\ submap_ids = {2}
  /\ warnings = <<1>>
  /\ Len(fusions) = 1
  /\ fusions[1].group = 2
  /\ fusions[1].points = <<PointAt(2)>>
  /\ layers[2].integrations = 1
  /\ layers[1].integrations = 0

AnyFused == \E x \in Ids : layers[x].integrations > 0

\* C9: the backend is constructed at most once, on the first group ever
\* fused, keeps the type it was constructed with, and at every
\* integratePointCloud call is bound to the layer of the group's own submap.
C9_BackendBinding ==
  /\ n_created = (IF AnyFused THEN 1 ELSE 0)
  /\ tsdf_integrator_.ptr = (n_created = 1)
  /\ \A i \in 1..Len(fusions) :
       /\ fusions[i].bound = fusions[i].group
       /\ fusions[i].group \in submap_ids
       /\ fusions[i].created => (i = 1 /\ n_created = 1)
  /\ (fusions # <<>>) => tsdf_integrator_.layer = fusions[Len(fusions)].bound
  /\ \A x \in Ids \ submap_ids : layers[x] = EmptyLayer

\* A second call rebinds the backend constructed in the first call to two
\* different layers in turn.
C9_Witness ==
  /\ ncalls = 2
  /\ n_created = 1
  /\ Len(fusions) >= 2
  /\ fusions[1].bound # fusions[2].bound
  /\ ~fusions[1].created
  /\ ~fusions[2].created

-----------------------------------------------------------------------------
(* Properties of Part II                                                     *)

InBounds(cloud) == SelectSeq(cloud, LAMBDA pt : pt.valid)
KnownPoints(cloud) == SelectSeq(cloud, LAMBDA pt : pt.valid /\ pt.known)
TruncatedPoints(cloud, maxd) ==
  SelectSeq(cloud, LAMBDA pt : pt.valid /\ pt.known /\ Abs(pt.dist) > maxd)

\* C5 as claimed: at the end of the run
\* unknown_points + truncated_points + #samples = n_in_bounds <= n.
C5_Original ==
  err.status = "done" =>
    /\ err.unknown_points + err.truncated_points + Len(err.abserror)
         = Len(InBounds(err_req.cloud))
    /\ Len(InBounds(err_req.cloud)) <= Len(err_req.cloud)

\* C5 amended: a truncated point is also recorded as a (clamped) sample, so
\* unknown_points + #samples = n_in_bounds <= n, and truncated_points counts
\* those of the samples that were clamped.
C5_Accounting ==
  err.status = "done" =>
    /\ err.unknown_points + Len(err.abserror) = Len(InBounds(err_req.cloud))
    /\ Len(InBounds(err_req.cloud)) <= Len(err_req.cloud)
    /\ Len(err.abserror) = Len(KnownPoints(err_req.cloud))
    /\ err.truncated_points
         = Len(TruncatedPoints(err_req.cloud, err_req.maximum_distance))
    /\ err.truncated_points <= Len(err.abserror)
    /\ \A i \in 1..Len(err.abserror) :
         err.abserror[i] >= 0 /\ err.abserror[i] <= err_req.maximum_distance

\* A completed run over a set with an excluded, an unknown and a truncated
\* point.
C5_Witness ==
  /\ err.status = "done"
  /\ err.truncated_points = 1
  /\ err.unknown_points >= 1
  /\ Len(err.abserror) = 2
  /\ Len(InBounds(err_req.cloud)) < Len(err_req.cloud)

\* C6 as claimed: the StdError written is 0 with fewer than 3 samples and
\* sqrt(sum (e - mean)^2 / (n - 1)) with n >= 3 samples.
C6_StdError ==
  err.status = "done" =>
    LET n == Len(err.abserror)
        sd == err.rows[2].stddev
    IN IF n < 3 THEN IsZero(sd)
       ELSE /\ sd.root
            /\ sd.num * (n * n * (n - 1))
                 = SumDevSq(err.abserror, n, Sum(err.abserror, 1), 1) * sd.den

\* C7 as claimed: the run completes without executing an undefined
\* operation and writes the header and one data row; three in-bounds points
\* at known distance 0 give mean = stddev = rmse = 0, total 3, unknown 0,
\* truncated 0.
C7_Completes ==
  err.status # "idle" =>
    /\ ~err.ub
    /\ err.status = "done"
    /\ Len(err.rows) = 2
    /\ err.rows[1] = Header
    /\ (err_req.cloud = <<Known(0), Known(0), Known(0)>> =>
          /\ IsZero(err.rows[2].mean)
          /\ IsZero(err.rows[2].stddev)
          /\ IsZero(err.rows[2].rmse)
          /\ err.rows[2].total_points = 3
          /\ err.rows[2].unknown_points = 0
          /\ err.rows[2].truncated_points = 0)

-----------------------------------------------------------------------------
(* Properties of Part III                                                    *)

\* The results the claim keeps: the nearest, and each further one within one
\* voxel size; of those, the ones whose interpolated-distance query succeeded.
KeptResults(knn, voxel_size_sqr) ==
  {i \in 1..Len(knn) : i = 1 \/ knn[i].dist_sqr <= voxel_size_sqr}
AnsweredResults(knn, voxel_size_sqr) ==
  {i \in KeptResults(knn, voxel_size_sqr) : knn[i].interp.ok}
\* The float sum of |distance| over the results of I among the first n, in
\* the order of the results.
RECURSIVE SumAbsDist(_, _, _)
SumAbsDist(knn, I, n) ==
  IF n = 0 THEN FZero
  ELSE IF n \in I
       THEN FAdd(SumAbsDist(knn, I, n - 1), FAbs(knn[n].interp.dist))
       ELSE SumAbsDist(knn, I, n - 1)

\* C10: after the run a voxel beyond the truncation distance keeps its color;
\* any other voxel is neutral exactly when it is out of bounds, has no
\* results, or has no kept result with an answered query, and otherwise has
\* the gradient color (blue 0) of the average |distance| over the kept
\* results; distances and weights are unchanged.
C10_Coloring ==
  vis.status = "done" =>
    /\ Len(vis.map) = Len(vis_req.map)
    /\ \A s \in 1..Len(vis_req.map) :
         /\ Len(vis.map[s].blocks) = Len(vis_req.map[s].blocks)
         /\ \A b \in 1..Len(vis_req.map[s].blocks) :
              /\ Len(vis.map[s].blocks[b]) = Len(vis_req.map[s].blocks[b])
              /\ \A v \in 1..Len(vis_req.map[s].blocks[b]) :
                   LET old == vis_req.map[s].blocks[b][v]
                       new == vis.map[s].blocks[b][v]
                       e == vis_req.env[s][b][v]
                       trunc == vis_req.map[s].truncation_distance
                       vs2 == vis_req.map[s].voxel_size_sqr
                       answered == AnsweredResults(e.knn, vs2)
                   IN /\ new.distance = old.distance
                      /\ new.weight = old.weight
                      /\ IF old.distance > trunc \/ old.distance < -trunc
                         THEN new.color = old.color
                         ELSE IF ~e.in_bounds \/ Len(e.knn) = 0 \/ answered = {}
                         THEN new.color = Neutral
                         ELSE /\ new.color # Neutral
                              /\ new.color[3] = 0
                              /\ new.color =
                                   GradientColor(SumAbsDist(e.knn, answered, Len(e.knn)),
                                                 Cardinality(answered),
                                                 vis_req.maximum_distance)

\* A voxel at exactly minus the truncation distance whose nearest result lies
\* farther than one voxel size, and is the only kept one, got the gradient
\* color of frac = 2 / 3 as the float arithmetic yields it.
C10_Witness ==
  /\ vis.status = "done"
  /\ vis_req.map[1].blocks[2][1].distance = -1
  /\ vis_req.env[1][2][1].in_bounds
  /\ Len(vis_req.env[1][2][1].knn) = 2
  /\ vis_req.env[1][2][1].knn[1] = Neighbor(2, TRUE, Flt(2, 0))
  /\ vis_req.env[1][2][1].knn[2] = Neighbor(2, TRUE, FZero)
  /\ vis_req.maximum_distance = Flt(3, 0)
  /\ vis.map[1].blocks[2][1].color = <<255, 169, 0>>

-----------------------------------------------------------------------------
(* Properties of Part IV                                                     *)

Among(e, es) == \E i \in 1..Len(es) : es[i] = e
PassRan(es) == Among("error_pass", es) \/ Among("coloring_pass", es)
Before(e1, e2, es) ==
  \A i, j \in 1..Len(es) : (es[i] = e1 /\ es[j] = e2) => i < j

\* C3 as claimed: in a run that requests evaluate or compute_coloring the
\* passes start only after the ground-truth load and the map load of that
\* same run succeeded, and a run whose ground-truth or map path is empty or
\* unreadable fails without running either pass.
C3_Original ==
  (nruns > 0 /\ (last_req.evaluate \/ last_req.compute_coloring)) =>
    /\ PassRan(events) => (Among("gt_loaded", events) /\ Among("map_loaded", events))
    /\ (\/ ~GtReadable(last_req.ground_truth_pointcloud_file)
        \/ ~MapReadable(last_req.map_file))
         => (result = "false" /\ ~PassRan(events))

\* C3 amended: the passes start only when the evaluator holds a ground truth
\* and a map, each loaded earlier in this run or, the path being empty, kept
\* from an earlier run; a run naming an unreadable file fails without either
\* pass; a run with an empty path fails without either pass when nothing is
\* kept from an earlier run, and goes on with what is kept otherwise.
C3_Step ==
  (nruns' = nruns + 1 /\ (last_req'.evaluate \/ last_req'.compute_coloring)) =>
    LET gtf == last_req'.ground_truth_pointcloud_file
        mf == last_req'.map_file
    IN /\ PassRan(events') =>
            /\ gt_ptcloud_'.ptr /\ submaps_'.ptr
            /\ \/ Among("gt_loaded", events')
               \/ (gtf = "" /\ gt_ptcloud_.ptr /\ gt_ptcloud_' = gt_ptcloud_)
            /\ \/ Among("map_loaded", events')
               \/ (mf = <<>> /\ submaps_.ptr /\ submaps_'.file = submaps_.file)
            /\ Before("gt_loaded", "error_pass", events')
            /\ Before("gt_loaded", "coloring_pass", events')
            /\ Before("map_loaded", "error_pass", events')
            /\ Before("map_loaded", "coloring_pass", events')
       /\ ((gtf # "" /\ ~GtReadable(gtf)) \/ (mf # <<>> /\ ~MapReadable(mf)))
            => (result' = "false" /\ ~PassRan(events'))
       /\ ((gtf = "" /\ ~gt_ptcloud_.ptr) \/ (mf = <<>> /\ ~submaps_.ptr))
            => (result' = "false" /\ ~PassRan(events'))
       /\ (isValid(last_req') /\ gtf = "" /\ gt_ptcloud_.ptr)
            => (~Among("no_gt", events') /\ gt_ptcloud_' = gt_ptcloud_)

C3_LoadsBeforePasses == [][C3_Step]_vars

\* A second run with empty paths ran both passes on what the first run
\* loaded.
C3_Witness ==
  /\ nruns = 2
  /\ last_req.ground_truth_pointcloud_file = ""
  /\ last_req.map_file = <<>>
  /\ last_req.evaluate /\ last_req.compute_coloring
  /\ Among("error_pass", events) /\ Among("coloring_pass", events)
  /\ ~Among("gt_loaded", events) /\ ~Among("map_loaded", events)
  /\ result = "true"

\* C4: a request with maximum_distance <= 0 is refused before anything else
\* happens: no load, no sink, no save, no visualization, and the stored
\* ground truth, map and output names stay as they were.
C4_Step ==
  (nruns' = nruns + 1 /\ last_req'.maximum_distance <= 0) =>
    /\ result' = "false"
    /\ events' = <<>>
    /\ UNCHANGED <<gt_ptcloud_, submaps_, planning_, target_directory_,
                   target_map_name_, disk>>

C4_InvalidRequest == [][C4_Step]_vars

\* An evaluator holding a ground truth and a map refused a request with
\* maximum_distance 0 that names an unreadable map.
C4_Witness ==
  /\ nruns = 2
  /\ last_req.maximum_distance = 0
  /\ last_req.map_file = BadMap
  /\ result = "false"
  /\ gt_ptcloud_.ptr
  /\ submaps_.ptr
  /\ target_map_name_ = <<"m">>

\* C8 as claimed: a run that returns success has written the report to
\* <dir>/<base>_evaluation_data.csv if evaluate was requested and the
\* recolored map to <dir>/<base>_evaluated.panmap if compute_coloring was
\* requested; a run in which the sink did not open or the save failed does
\* not return success.
C8_SuccessOutputs ==
  LET csv == <<"/", "d", "/", "m">> \o EvaluationDataCsv
      panmap == <<"/", "d", "/", "m">> \o EvaluatedPanmap
  IN /\ (result = "true" /\ last_req.evaluate) =>
          /\ Among("report_written", events)
          /\ csv \in DOMAIN disk
          /\ Len(disk[csv]) = 2
     /\ (result = "true" /\ last_req.compute_coloring) =>
          /\ Among("map_saved", events)
          /\ panmap \in DOMAIN disk
     /\ (Among("sink_failed", events) \/ Among("save_failed", events))
          => result # "true"

=============================================================================
